---- MODULE Spec2Model ----
(***************************************************************************)
(* A model of rldd-rex (src/src/lib.rs): the recursive resolver of the     *)
(* shared-library dependencies of an ELF file.                             *)
(*                                                                         *)
(* Strings are sequences of tokens.  A token is either the separator "/"   *)
(* or a piece of text that holds no separator; "$ORIGIN" is one token.     *)
(* str::starts_with, str::trim_start_matches, PathBuf::push and            *)
(* Path::parent are modelled on these sequences as the standard library    *)
(* computes them on bytes.  The build modelled is the default one: Linux,  *)
(* feature enable_ld_library_path off.                                     *)
(***************************************************************************)
EXTENDS Integers, Sequences, FiniteSets, TLC

VARIABLES
    call,         \* the operation under way and its arguments
    ret,          \* the value it returned (NoRet until it returns)
    merged,       \* filesystem: /lib is a symbolic link to /usr/lib
    place,        \* filesystem: directory entry -> inode (0: no such entry)
    elfs,         \* filesystem: inode -> content of the file
    etc,          \* filesystem: the loader configuration files
    pc,           \* position of rldd_rex: "start", "walk", "done"
    visited,      \* inner: visited, the (dev, ino) identities
    seen_libs,    \* inner: seen_libs, the library names
    res,          \* inner: res, the (name, status) pairs
    search_dirs,  \* rldd_rex: search_dirs
    stack,        \* the activations of inner, innermost last
    hist          \* history: who declared a name first, arrivals and walks per identity

vars == <<call, ret, merged, place, elfs, etc, pc, visited, seen_libs, res,
          search_dirs, stack, hist>>

\* ------------------------------------------------------------------ bounds

\* Longest NEEDED list of a file.
MaxNeeded == 2
\* Longest RPATH entry, in tokens, given to resolve_origin on its own.
MaxEntryLen == 5
\* Largest e_type value given to get_elf_type on its own.
MaxEType == 31

\* ----------------------------------------------------------------- strings

SEP == "/"
ORIGIN == "$ORIGIN"
PARENT == ".."

NoStr == <<"<none>">>
NoLoc == <<NoStr>>

RECURSIVE SeqsUpTo(_, _)
SeqsUpTo(S, n) ==
    IF n = 0 THEN {<<>>}
    ELSE LET shorter == SeqsUpTo(S, n - 1)
         IN  shorter \cup {Append(s, x) : s \in {t \in shorter : Len(t) = n - 1}, x \in S}

\* F applied to the value of x, which is computed once.
Strict(x, F(_)) == CHOOSE r \in {F(v) : v \in {x}} : TRUE

Front(s) == SubSeq(s, 1, Len(s) - 1)
Last(s) == s[Len(s)]
Range(s) == {s[i] : i \in 1..Len(s)}

\* str::starts_with(pat), pat one token
starts_with(s, tok) == s # <<>> /\ Head(s) = tok

\* str::trim_start_matches(pat): every leading repetition of pat is removed
RECURSIVE trim_start_matches(_, _)
trim_start_matches(s, tok) ==
    IF starts_with(s, tok) THEN trim_start_matches(Tail(s), tok) ELSE s

\* str::contains("musl"): the tokens whose text holds "musl"
MuslTokens == {"ld-musl.so", "musl"}
contains_musl(s) == \E i \in 1..Len(s) : s[i] \in MuslTokens

RECURSIVE RunLen(_)
RunLen(p) == IF p = <<>> \/ Head(p) = SEP THEN 0 ELSE 1 + Strict(Tail(p), RunLen)

\* Path::components without the root: the maximal runs of text between separators
RECURSIVE Names(_)
Names(p) ==
    IF p = <<>> THEN <<>>
    ELSE IF Head(p) = SEP THEN Strict(Tail(p), Names)
    ELSE Strict(RunLen(p),
                LAMBDA n : <<SubSeq(p, 1, n)>> \o Strict(SubSeq(p, n + 1, Len(p)), Names))

is_absolute(p) == starts_with(p, SEP)

RECURSIVE TrimEndSep(_)
TrimEndSep(p) == IF p # <<>> /\ Last(p) = SEP THEN TrimEndSep(Front(p)) ELSE p

RECURSIVE TrimEndText(_)
TrimEndText(p) == IF p # <<>> /\ Last(p) # SEP THEN TrimEndText(Front(p)) ELSE p

\* Path::parent: NoStr when the path is the root or empty, else the path up to the
\* component before the last one
parent(p) ==
    IF Names(p) = <<>> THEN NoStr
    ELSE LET up == TrimEndSep(TrimEndText(TrimEndSep(p)))
         IN  IF up = <<>> /\ is_absolute(p) THEN <<SEP>> ELSE up

\* Path::file_name: NoStr when the path ends in "..", is the root or is empty
file_name(p) ==
    IF Names(p) = <<>> \/ Last(Names(p)) = <<PARENT>> THEN NoStr ELSE Last(Names(p))

\* Path::join / PathBuf::push: an absolute argument replaces the path
join(base, rel) ==
    IF is_absolute(rel) THEN rel
    ELSE IF base = <<>> \/ Last(base) = SEP THEN base \o rel
    ELSE base \o <<SEP>> \o rel

\* PathBuf::from of an absolute path given by its component names
RECURSIVE Render(_)
Render(loc) ==
    IF loc = <<>> THEN <<SEP>>
    ELSE IF Len(loc) = 1 THEN <<SEP>> \o loc[1]
    ELSE Strict(Front(loc), Render) \o <<SEP>> \o Last(loc)

Loc(names) == [i \in 1..Len(names) |-> <<names[i]>>]
Abs(names) == Render(Loc(names))

\* -------------------------------------------------------- resolve_origin

resolve_origin(bin_path, entry) ==
    IF starts_with(entry, ORIGIN)
    THEN LET rel == trim_start_matches(entry, ORIGIN)
             dir == IF parent(bin_path) = NoStr THEN <<SEP>> ELSE parent(bin_path)
         IN  join(dir, rel)
    ELSE entry

\* ---------------------------------------------------------- get_elf_type

ET_EXEC == 2
ET_DYN == 3

get_elf_type_dyn_first(e_type, dynamic, interpreter) ==
    IF e_type = ET_EXEC THEN (IF dynamic THEN "Dynamic" ELSE "Static")
    ELSE IF e_type = ET_DYN THEN (IF dynamic THEN "Dynamic" ELSE "Pie")
    ELSE "Invalid"

get_elf_type(e_type, dynamic, interpreter) ==
    IF e_type = ET_EXEC THEN (IF dynamic THEN "Dynamic" ELSE "Static")
    ELSE IF e_type = ET_DYN THEN (IF interpreter THEN "Pie" ELSE "Dynamic")
    ELSE "Invalid"

\* ------------------------------------------------------------ filesystem

\* The directories of the filesystem; /lib is one of them unless it is a link.
BaseDirs ==
    {Loc(<<>>), Loc(<<"usr">>), Loc(<<"usr", "lib">>), Loc(<<"usr", "bin">>),
     Loc(<<"opt">>), Loc(<<"opt", "app">>), Loc(<<"opt", "app", "bin">>),
     Loc(<<"opt", "app", "lib">>), Loc(<<"etc">>)}
LibDir == Loc(<<"lib">>)
UsrLibDir == Loc(<<"usr", "lib">>)

IsDirLoc(loc) == loc \in BaseDirs \/ (~merged /\ loc = LibDir)

LinkTarget(loc) == IF merged /\ loc = LibDir THEN UsrLibDir ELSE NoLoc

\* The directory entries that may hold a file.
AppSlot == Loc(<<"opt", "app", "bin", "app">>)
MuslSlot == Loc(<<"usr", "lib", "ld-musl.so">>)
LibSlots ==
    {Loc(<<"usr", "lib", "libA">>), Loc(<<"usr", "lib", "libB">>),
     Loc(<<"opt", "app", "lib", "libA">>)}
Slots == {AppSlot, MuslSlot} \cup LibSlots

AppFile == 1
LibFiles == {2, 3}
MuslFile == 4
Inodes == {AppFile, MuslFile} \cup LibFiles

IsFileLoc(loc) == loc \in Slots /\ place[loc] # 0

\* The working directory, from which a relative path is resolved.
Cwd == Loc(<<>>)

\* Path resolution as the kernel does it, one component at a time: ".." leaves the
\* directory reached, a symbolic link is followed, and a file is no directory.
RECURSIVE Walk(_, _)
Walk(cur, names) ==
    IF cur = NoLoc THEN NoLoc
    ELSE IF names = <<>> THEN cur
    ELSE IF ~IsDirLoc(cur) THEN NoLoc
    ELSE LET c == Head(names)
             nxt == Append(cur, c)
             to == IF c = <<PARENT>> THEN (IF cur = <<>> THEN cur ELSE Front(cur))
                   ELSE IF LinkTarget(nxt) # NoLoc THEN LinkTarget(nxt)
                   ELSE IF IsDirLoc(nxt) \/ IsFileLoc(nxt) THEN nxt
                   ELSE NoLoc
         IN  Strict(<<to, Tail(names)>>, LAMBDA t : Walk(t[1], t[2]))

Resolve(p) ==
    IF p = <<>> THEN NoLoc
    ELSE Strict(Names(p), LAMBDA names : Walk(IF is_absolute(p) THEN <<>> ELSE Cwd, names))

\* Path::exists, Path::is_dir, Path::canonicalize (NoStr: Err)
exists(p) == Resolve(p) # NoLoc
is_dir(p) == IsDirLoc(Resolve(p))
canonicalize(p) == Strict(Resolve(p), LAMBDA loc : IF loc # NoLoc THEN Render(loc) ELSE NoStr)

\* fs::metadata: the (dev, ino) of the file, <<0, 0>> when it cannot be read
metadata(p) == Strict(Resolve(p), LAMBDA loc : IF IsFileLoc(loc) THEN <<1, place[loc]>> ELSE <<0, 0>>)

\* open_and_map: File::open and Mmap::map both succeed
open_and_map(p) ==
    Strict(Resolve(p), LAMBDA loc : IsFileLoc(loc) /\ elfs[place[loc]].kind # "noperm")

\* Elf::parse of the mapped file
ElfOf(p) == elfs[place[Resolve(p)]]
parse(p) == ElfOf(p).kind = "elf"

\* ------------------------------------------------------- read_ld_so_conf

NoFile == <<NoStr>>
LdSoConf == Abs(<<"etc", "ld.so.conf">>)
ConfD == Abs(<<"etc", "ld.so.conf.d", "a.conf">>)
ConfDPattern == Abs(<<"etc", "ld.so.conf.d", "*.conf">>)
MuslConf == Abs(<<"etc", "ld-musl-x86_64.path">>)

\* fs::read_to_string of a configuration file, as its lines (NoFile: Err)
read_to_string(p) ==
    IF p = LdSoConf THEN etc.ld_so_conf
    ELSE IF p = ConfD THEN etc.conf_d
    ELSE IF p = MuslConf THEN etc.musl_path
    ELSE NoFile

\* glob(pattern): the paths the pattern matches
glob(pattern) ==
    IF pattern = ConfDPattern /\ etc.conf_d # NoFile THEN <<ConfD>> ELSE <<>>

RECURSIVE TrimStart(_)
TrimStart(s) == IF starts_with(s, " ") THEN TrimStart(Tail(s)) ELSE s
RECURSIVE TrimEnd(_)
TrimEnd(s) == IF s # <<>> /\ Last(s) = " " THEN TrimEnd(Front(s)) ELSE s
trim(s) == TrimEnd(TrimStart(s))

RECURSIVE process_file(_, _)
RECURSIVE process_lines(_, _)
RECURSIVE process_entries(_, _)
process_file(p, collected) ==
    IF read_to_string(p) = NoFile THEN collected
    ELSE Strict(<<read_to_string(p), collected>>, LAMBDA t : process_lines(t[1], t[2]))
process_lines(lines, collected) ==
    IF lines = <<>> THEN collected
    ELSE LET line == trim(Head(lines))
         IN  IF line = <<>> \/ starts_with(line, "#")
             THEN Strict(Tail(lines), LAMBDA rest : process_lines(rest, collected))
             ELSE IF starts_with(line, "include")
             THEN Strict(<<Tail(lines), process_entries(glob(trim(Tail(line))), collected)>>,
                         LAMBDA t : process_lines(t[1], t[2]))
             ELSE IF exists(line) /\ is_dir(line) /\ line \notin Range(collected)
             THEN Strict(<<Tail(lines), Append(collected, line)>>,
                         LAMBDA t : process_lines(t[1], t[2]))
             ELSE Strict(Tail(lines), LAMBDA rest : process_lines(rest, collected))
process_entries(entries, collected) ==
    IF entries = <<>> THEN collected
    ELSE Strict(<<Tail(entries), process_file(Head(entries), collected)>>,
                LAMBDA t : process_entries(t[1], t[2]))

read_ld_so_conf ==
    IF etc.ld_so_conf # NoFile THEN process_file(LdSoConf, <<>>) ELSE <<>>

\* ------------------------------------------------------------ search dirs

EM_386 == 3
EM_MIPS == 8
EM_PPC == 20
EM_ARM == 40
EM_X86_64 == 62
EM_AARCH64 == 183

machine_from_e_machine(e_machine) ==
    IF e_machine = EM_386 THEN "X86"
    ELSE IF e_machine = EM_X86_64 THEN "X86_64"
    ELSE IF e_machine = EM_ARM THEN "Arm32"
    ELSE IF e_machine = EM_AARCH64 THEN "Arm64"
    ELSE IF e_machine = EM_MIPS THEN "Mips"
    ELSE IF e_machine = EM_PPC THEN "PowerPC"
    ELSE "Unknown"

ArchOf(elf) == IF elf.is_64 THEN "Elf64" ELSE "Elf32"

Triplet(t) == <<Abs(<<"lib", t>>), Abs(<<"usr", "lib", t>>)>>

default_dirs_for_arch_and_machine(elf_arch, machine) ==
    LET dirs ==
            IF elf_arch = "Elf32"
            THEN <<Abs(<<"lib">>), Abs(<<"usr", "lib">>), Abs(<<"lib32">>), Abs(<<"usr", "lib32">>)>>
            ELSE IF elf_arch = "Elf64"
            THEN <<Abs(<<"lib64">>), Abs(<<"usr", "lib64">>)>>
            ELSE <<>>
        machine_dirs ==
            IF machine = "PowerPC"
            THEN (IF elf_arch = "Elf32" THEN Triplet("powerpc-linux-gnu")
                  ELSE IF elf_arch = "Elf64" THEN Triplet("powerpc64-linux-gnu")
                  ELSE <<>>)
            ELSE IF machine = "Mips"
            THEN (IF elf_arch = "Elf32" THEN Triplet("mips-linux-gnu")
                  ELSE IF elf_arch = "Elf64" THEN Triplet("mips64-linux-gnu")
                  ELSE <<>>)
            ELSE IF machine = "Arm32" THEN Triplet("arm-linux-gnueabihf")
            ELSE IF machine = "Arm64" THEN Triplet("aarch64-linux-gnu")
            ELSE IF machine = "X86"
            THEN (IF elf_arch = "Elf32" THEN Triplet("i386-linux-gnu") ELSE <<>>)
            ELSE IF machine = "X86_64"
            THEN (IF elf_arch = "Elf64" THEN Triplet("x86_64-linux-gnu")
                  ELSE IF elf_arch = "Elf32" THEN Triplet("i386-linux-gnu")
                  ELSE <<>>)
            ELSE <<>>
    IN  dirs \o machine_dirs

\* The last pass of build_search_dirs: each directory canonicalized (kept as it is
\* when that fails), the first occurrence of each kept.
CanonOrSelf(d) == Strict(canonicalize(d), LAMBDA c : IF c = NoStr THEN d ELSE c)

RECURSIVE Uniq(_, _)
Uniq(dirs, uniq) ==
    IF dirs = <<>> THEN uniq
    ELSE Strict(CanonOrSelf(Head(dirs)),
                LAMBDA path :
                    Strict(<<Tail(dirs), IF path \in Range(uniq) THEN uniq ELSE Append(uniq, path)>>,
                           LAMBDA t : Uniq(t[1], t[2])))

build_search_dirs(elf, arch, machine) ==
    LET fixed == <<Abs(<<"lib">>), Abs(<<"usr", "lib">>), Abs(<<"usr", "local", "lib">>),
                   Abs(<<"usr", "libexec">>), Abs(<<"libexec">>)>>
        is_musl == elf.interpreter # NoStr /\ contains_musl(elf.interpreter)
        musl_dirs ==
            IF etc.musl_path # NoFile
            THEN SelectSeq([i \in 1..Len(etc.musl_path) |-> trim(etc.musl_path[i])],
                           LAMBDA l : l # <<>>)
            ELSE <<>>
        dirs ==
            IF is_musl THEN fixed \o musl_dirs
            ELSE fixed \o read_ld_so_conf \o default_dirs_for_arch_and_machine(arch, machine)
    IN  Strict(dirs, LAMBDA all : Uniq(all, <<>>))

extra_lib_dirs_for_bin(path) ==
    LET lib_names == <<<<"lib">>, <<"lib64">>, <<"libs">>>>
        real_bin == CanonOrSelf(path)
        under(d) == [i \in 1..3 |-> join(d, lib_names[i])]
    IN  Strict(parent(real_bin),
               LAMBDA bin_dir :
                   IF bin_dir = NoStr THEN <<>>
                   ELSE <<bin_dir>> \o under(bin_dir)
                        \o (IF file_name(bin_dir) = <<"bin">> /\ parent(bin_dir) # NoStr
                            THEN under(parent(bin_dir))
                            ELSE <<>>))

\* The list rldd_rex hands to inner.
SearchDirsFor(path) ==
    LET elf == ElfOf(path)
    IN  build_search_dirs(elf, ArchOf(elf), machine_from_e_machine(elf.e_machine))
        \o extra_lib_dirs_for_bin(path)

\* ----------------------------------------------------------- find_library

RECURSIVE FirstHit(_, _)
FirstHit(dirs, lib) ==
    IF dirs = <<>> THEN NoStr
    ELSE Strict(join(Head(dirs), lib),
                LAMBDA candidate :
                    IF exists(candidate) THEN candidate
                    ELSE Strict(Tail(dirs), LAMBDA rest : FirstHit(rest, lib)))

\* The order in which find_library scans: search_dirs, then the binary's paths.
ScanOrder(dirs, paths) == dirs \o paths

find_library(lib, dirs, paths) == Strict(ScanOrder(dirs, paths), LAMBDA all : FirstHit(all, lib))

\* ------------------------------------------------------------------ inner

MAX_DEPTH == 512

NOT_FOUND == <<"not found">>

\* HashSet::insert: TRUE when the value was not in the set
insert_visited_always(key, set) == TRUE
insert_visited(key, set) == key \notin set
insert_seen_always(dep, set) == TRUE
insert_seen(dep, set) == dep \notin set

\* The guards at the head of inner: what the call does with the binary.
Enter(path, d, vis) ==
    IF d > MAX_DEPTH THEN "depth"
    ELSE IF metadata(path) = <<0, 0>> THEN "noaccess"
    ELSE IF ~insert_visited(metadata(path), vis) THEN "visited"
    ELSE "walk"

\* The locals of an activation of inner that walks its deps; via is the name the
\* binary was located under (NoStr for the root binary).
Frame(path, via) ==
    LET elf == ElfOf(path)
        entries == elf.rpaths \o elf.runpaths
    IN  [path |-> path,
         deps |-> elf.libraries,
         paths |-> [k \in 1..Len(entries) |-> resolve_origin(path, entries[k])],
         i |-> 1,
         via |-> via]

Top == stack[Len(stack)]
Dep == Top.deps[Top.i]
InLoop == pc = "walk" /\ stack # <<>> /\ Top.i <= Len(Top.deps)
Advance(st) == [st EXCEPT ![Len(st)].i = @ + 1]
Found == find_library(Dep, search_dirs, Top.paths)

\* res.push((dep, display))
PushFront(r, dep, display) == <<<<dep, display>>>> \o r
Push(r, dep, display) == Append(r, <<dep, display>>)

Declare(h, dep) ==
    [h EXCEPT !.first = Append(@, [name |-> dep, by |-> Top.path, via |-> Top.via])]

\* ---------------------------------------------------------------- rldd_rex

empty_info_wrong_type == [arch |-> "Unknown", elf_type |-> "Static", deps |-> <<>>]
empty_info == [arch |-> "Unknown", elf_type |-> "Invalid", deps |-> <<>>]
Ok(info) == [tag |-> "Ok", info |-> info]
Pending == [tag |-> "pending", info |-> empty_info]

\* The interpreter record rldd_rex pushes for a musl binary.
MuslName(interp) == IF file_name(interp) = NoStr THEN interp ELSE file_name(interp)
MuslStatus(interp) == IF exists(interp) THEN CanonOrSelf(interp) ELSE interp
IsMusl(elf) == elf.interpreter # NoStr /\ contains_musl(elf.interpreter)
MuslRes(elf) ==
    IF IsMusl(elf) THEN <<<<MuslName(elf.interpreter), MuslStatus(elf.interpreter)>>>> ELSE <<>>
MuslSeenNothing(elf) == {}
MuslSeen(elf) == IF IsMusl(elf) THEN {MuslName(elf.interpreter)} ELSE {}

RootOk == open_and_map(call.path) /\ parse(call.path)

\* rldd_rex, the root cannot be opened, mapped or parsed: Ok(empty_info())
StartFail ==
    /\ pc = "start" /\ call.fn = "rldd_rex"
    /\ ~RootOk
    /\ ret' = Ok(empty_info)
    /\ pc' = "done"
    /\ UNCHANGED <<call, merged, place, elfs, etc, visited, seen_libs, res, search_dirs,
                   stack, hist>>

\* rldd_rex up to the loop of the first activation of inner
Start ==
    /\ pc = "start" /\ call.fn = "rldd_rex"
    /\ RootOk
    /\ LET path == call.path
           elf == ElfOf(path)
           how == Enter(path, 0, {})
       IN  /\ res' = MuslRes(elf)
           /\ seen_libs' = MuslSeen(elf)
           /\ search_dirs' = SearchDirsFor(path)
           /\ visited' = IF how = "walk" THEN {metadata(path)} ELSE {}
           /\ stack' = IF how = "walk" THEN <<Frame(path, NoStr)>> ELSE <<>>
           /\ hist' = [hist EXCEPT
                         !.arrivals = IF how \in {"walk", "visited"}
                                      THEN Append(@, metadata(path)) ELSE @,
                         !.walks = IF how = "walk" THEN Append(@, metadata(path)) ELSE @]
    /\ pc' = "walk"
    /\ UNCHANGED <<call, ret, merged, place, elfs, etc>>

\* inner, one turn of the loop: the name was seen before
SkipSeen ==
    /\ InLoop
    /\ ~insert_seen(Dep, seen_libs)
    /\ stack' = Advance(stack)
    /\ UNCHANGED <<call, ret, merged, place, elfs, etc, pc, visited, seen_libs, res,
                   search_dirs, hist>>

\* find_library for the name at hand, and what becomes of the file found: "skip" when
\* it cannot be mapped or parsed, else what the guards of the nested inner decide.
Nested(found) ==
    IF found = NoStr THEN "none"
    ELSE IF open_and_map(found) /\ parse(found) THEN Enter(found, Len(stack), visited)
    ELSE "skip"
Located ==
    IF InLoop /\ insert_seen(Dep, seen_libs)
    THEN {<<found, Nested(found)>> : found \in {Found}}
    ELSE {}

\* inner, one turn of the loop: no directory holds the name
NotFound(found, how) ==
    /\ found = NoStr
    /\ seen_libs' = seen_libs \cup {Dep}
    /\ res' = Push(res, Dep, NOT_FOUND)
    /\ stack' = Advance(stack)
    /\ hist' = Declare(hist, Dep)
    /\ UNCHANGED <<call, ret, merged, place, elfs, etc, pc, visited, search_dirs>>

\* inner, one turn of the loop: the file is found and the nested call, if any, returns
\* at its guards
FoundLeaf(found, how) ==
    /\ found # NoStr
    /\ how # "walk"
    /\ seen_libs' = seen_libs \cup {Dep}
    /\ res' = Push(res, Dep, found)
    /\ stack' = Advance(stack)
    /\ hist' = [Declare(hist, Dep) EXCEPT
                  !.arrivals = IF how = "visited" THEN Append(@, metadata(found)) ELSE @]
    /\ UNCHANGED <<call, ret, merged, place, elfs, etc, pc, visited, search_dirs>>

\* inner, one turn of the loop: the file is found and the nested call walks its deps
Descend(found, how) ==
    /\ found # NoStr
    /\ how = "walk"
    /\ seen_libs' = seen_libs \cup {Dep}
    /\ visited' = visited \cup {metadata(found)}
    /\ stack' = Append(stack, Frame(found, Dep))
    /\ hist' = [Declare(hist, Dep) EXCEPT
                  !.arrivals = Append(@, metadata(found)),
                  !.walks = Append(@, metadata(found))]
    /\ UNCHANGED <<call, ret, merged, place, elfs, etc, pc, res, search_dirs>>

\* a nested inner returns Ok(()): the caller pushes the pair of the name it located
Return ==
    /\ pc = "walk" /\ Len(stack) > 1
    /\ Top.i > Len(Top.deps)
    /\ LET rest == Front(stack)
           caller == rest[Len(rest)]
       IN  /\ res' = Push(res, caller.deps[caller.i], Top.path)
           /\ stack' = Advance(rest)
    /\ UNCHANGED <<call, ret, merged, place, elfs, etc, pc, visited, seen_libs,
                   search_dirs, hist>>

\* the first inner returns Ok(()): rldd_rex returns Ok(RlddRexInfo)
Finish ==
    /\ pc = "walk"
    /\ Len(stack) <= 1
    /\ stack # <<>> => Top.i > Len(Top.deps)
    /\ LET elf == ElfOf(call.path)
       IN  ret' = Ok([arch |-> ArchOf(elf),
                      elf_type |-> get_elf_type(elf.e_type, elf.dynamic, elf.interpreter # NoStr),
                      deps |-> res])
    /\ stack' = <<>>
    /\ pc' = "done"
    /\ UNCHANGED <<call, merged, place, elfs, etc, visited, seen_libs, res, search_dirs, hist>>

Next ==
    \/ StartFail
    \/ Start
    \/ SkipSeen
    \/ \E l \in Located : NotFound(l[1], l[2])
    \/ \E l \in Located : FoundLeaf(l[1], l[2])
    \/ \E l \in Located : Descend(l[1], l[2])
    \/ Return
    \/ Finish

\* ------------------------------------------------- the pure functions alone

ResolveOrigin ==
    /\ pc = "start" /\ call.fn = "resolve_origin"
    /\ ret' = resolve_origin(call.bin_path, call.entry)
    /\ pc' = "done"
    /\ UNCHANGED <<call, merged, place, elfs, etc, visited, seen_libs, res, search_dirs,
                   stack, hist>>

GetElfType ==
    /\ pc = "start" /\ call.fn = "get_elf_type"
    /\ ret' = get_elf_type(call.e_type, call.dynamic, call.interpreter)
    /\ pc' = "done"
    /\ UNCHANGED <<call, merged, place, elfs, etc, visited, seen_libs, res, search_dirs,
                   stack, hist>>

\* ------------------------------------------------------------ initial states

LibA == <<"libA">>
LibB == <<"libB">>
LdMusl == <<"ld-musl.so">>

AppPath == Render(AppSlot)
UsrLibA == Abs(<<"usr", "lib", "libA">>)
LibLibA == Abs(<<"lib", "libA">>)
Missing == Abs(<<"usr", "bin", "tool">>)
OptAppLib == Abs(<<"opt", "app", "lib">>)
UsrLib == Abs(<<"usr", "lib">>)
OriginLib == <<ORIGIN, SEP, PARENT, SEP, "lib">>
GlibcInterp == Abs(<<"lib", "ld-linux.so">>)
MuslInterp == Abs(<<"lib", "ld-musl.so">>)

Elf(is_64, e_machine, e_type, interp, libs, rpaths, runpaths) ==
    [kind |-> "elf", is_64 |-> is_64, e_machine |-> e_machine, e_type |-> e_type,
     dynamic |-> TRUE, interpreter |-> interp, libraries |-> libs,
     rpaths |-> rpaths, runpaths |-> runpaths]
SharedObject(libs, rpaths, runpaths) ==
    Elf(TRUE, EM_X86_64, ET_DYN, NoStr, libs, rpaths, runpaths)
NotElf(kind) == [SharedObject(<<>>, <<>>, <<>>) EXCEPT !.kind = kind]

NoEtc == [ld_so_conf |-> NoFile, conf_d |-> NoFile, musl_path |-> NoFile]

Fresh ==
    /\ pc = "start"
    /\ visited = {}
    /\ seen_libs = {}
    /\ res = <<>>
    /\ search_dirs = <<>>
    /\ stack = <<>>
    /\ hist = [first |-> <<>>, arrivals |-> <<>>, walks |-> <<>>]

NoFiles ==
    /\ merged = FALSE
    /\ place = [s \in Slots |-> 0]
    /\ elfs = [n \in Inodes |-> NotElf("data")]
    /\ etc = NoEtc

\* The embedded search paths all the files of one installation carry.
Embedded == {<<<<>>, <<>>>>, <<<<OptAppLib>>, <<>>>>, <<<<>>, <<OriginLib>>>>}
LibNeeded == {<<>>, <<LibA>>, <<LibB>>, <<LibA, LibB>>}

\* Dependency graphs: an application and two libraries, over every placement of the
\* libraries (one file under two names included) and every NEEDED list.
Graphs(As, Bs, Cs, Embs, N2s, N3s) ==
    /\ Fresh
    /\ \E path \in {AppPath, UsrLibA} : call = [fn |-> "rldd_rex", path |-> path]
    /\ ret = Pending
    /\ merged = FALSE
    /\ etc = NoEtc
    /\ \E a \in As, b \in Bs, c \in Cs :
          place = [s \in Slots |->
                     IF s = AppSlot THEN AppFile
                     ELSE IF s = Loc(<<"usr", "lib", "libA">>) THEN a
                     ELSE IF s = Loc(<<"usr", "lib", "libB">>) THEN b
                     ELSE IF s = Loc(<<"opt", "app", "lib", "libA">>) THEN c
                     ELSE 0]
    /\ \E emb \in Embs, n1 \in SeqsUpTo({LibA, LibB}, MaxNeeded), n2 \in N2s, n3 \in N3s :
          elfs = [n \in Inodes |->
                    IF n = AppFile
                    THEN Elf(TRUE, EM_X86_64, ET_EXEC, GlibcInterp, n1, emb[1], emb[2])
                    ELSE IF n = 2 THEN SharedObject(n2, emb[1], emb[2])
                    ELSE IF n = 3 /\ n3 # NoLoc THEN SharedObject(n3, emb[1], emb[2])
                    ELSE NotElf("data")]

InitGraph == Graphs({0, 2}, {0, 3}, {0, 2, 3}, Embedded, LibNeeded, LibNeeded \cup {NoLoc})

\* The graphs with a cycle, a diamond or one file under two names among them.
InitCycles == Graphs({0, 2}, {3}, {0, 3}, {<<<<OptAppLib>>, <<>>>>}, LibNeeded, {<<LibA>>, NoLoc})

\* The headers of the root file.
Headers == {<<TRUE, EM_X86_64, ET_DYN>>, <<FALSE, EM_386, ET_EXEC>>, <<TRUE, EM_AARCH64, 4>>}
Interps == {NoStr, GlibcInterp, MuslInterp}

EtcChoices ==
    {NoEtc,
     [ld_so_conf |-> <<<<"#", " ", "libc">>, <<>>,
                       <<"include", " ">> \o ConfDPattern, <<" ">> \o OptAppLib, UsrLib>>,
      conf_d |-> <<OptAppLib, Abs(<<"usr", "lib64">>), UsrLib>>,
      musl_path |-> NoFile],
     [ld_so_conf |-> <<<<"include", " ">> \o ConfDPattern, AppPath>>,
      conf_d |-> NoFile,
      musl_path |-> <<UsrLib, <<" ">>, Abs(<<"lib">>) \o <<" ">>, OptAppLib>>]}

\* Environments: the root path, its header and interpreter, the layout of /lib and the
\* loader configuration.
InitEnv ==
    /\ Fresh
    /\ \E path \in {AppPath, UsrLibA, LibLibA, Missing} : call = [fn |-> "rldd_rex", path |-> path]
    /\ ret = Pending
    /\ merged \in BOOLEAN
    /\ etc \in EtcChoices
    /\ \E m \in {0, MuslFile}, b \in {0, 2} :
          place = [s \in Slots |->
                     IF s = AppSlot THEN AppFile
                     ELSE IF s = MuslSlot THEN m
                     ELSE IF s = Loc(<<"usr", "lib", "libA">>) THEN 2
                     ELSE IF s = Loc(<<"usr", "lib", "libB">>) THEN b
                     ELSE 0]
    /\ \E app \in {Elf(h[1], h[2], h[3], i, n, <<>>, <<OriginLib>>) :
                     h \in Headers, i \in Interps, n \in SeqsUpTo({LibA, LdMusl}, MaxNeeded)}
                  \cup {NotElf("data"), NotElf("noperm")} :
          elfs = [n \in Inodes |->
                    IF n = AppFile THEN app
                    ELSE IF n = 2 THEN SharedObject(<<LibB>>, <<>>, <<OriginLib>>)
                    ELSE NotElf("data")]

Init == InitGraph \/ InitEnv

Spec == Init /\ [][Next]_vars

\* The scheduling of a sequential program: a step that can be taken is taken.
FairSpec == InitCycles /\ [][Next]_vars /\ WF_vars(Next)

EntryTokens == {ORIGIN, SEP, PARENT, "lib"}
BinPaths == {AppPath, Abs(<<"app">>), <<"app">>, <<SEP>>}

InitOrigin ==
    /\ Fresh /\ NoFiles
    /\ \E b \in BinPaths, e \in SeqsUpTo(EntryTokens, MaxEntryLen) :
          call = [fn |-> "resolve_origin", bin_path |-> b, entry |-> e]
    /\ ret = NoStr

SpecOrigin == InitOrigin /\ [][ResolveOrigin]_vars

InitType ==
    /\ Fresh /\ NoFiles
    /\ \E t \in 0..MaxEType, d \in BOOLEAN, i \in BOOLEAN :
          call = [fn |-> "get_elf_type", e_type |-> t, dynamic |-> d, interpreter |-> i]
    /\ ret = "pending"

SpecType == InitType /\ [][GetElfType]_vars

\* ================================================================== claims

Count(seq, x) == Cardinality({k \in 1..Len(seq) : seq[k] = x})
ResNames == {res[k][1] : k \in 1..Len(res)}
Pos(name) == CHOOSE k \in 1..Len(res) : res[k][1] = name
Walking == call.fn = "rldd_rex" /\ pc # "start" /\ RootOk
RootElf == ElfOf(call.path)
Returned == call.fn = "rldd_rex" /\ pc = "done"

\* ---- C7
\* C7 (graceful degradation): rldd_rex never returns an error, and on a root that is
\* missing, cannot be opened or mapped, or is no ELF file it returns Ok with arch
\* Unknown, type Invalid and no dependency.
C7_GracefulDegradation ==
    Returned =>
        /\ ret.tag = "Ok"
        /\ ~RootOk =>
              /\ ret.info.arch = "Unknown"
              /\ ret.info.elf_type = "Invalid"
              /\ ret.info.deps = <<>>

\* rldd_rex has returned on a root path that does not exist
C7_Witness ==
    /\ Returned
    /\ ~exists(call.path)
    /\ ret.tag = "Ok"

\* ---- C8
\* C8 (classification): get_elf_type returns Dynamic for EXEC with a dynamic section,
\* Static for EXEC without one, Pie for DYN with an interpreter, Dynamic for DYN
\* without one, and Invalid for every other header type.
C8_Classification ==
    (call.fn = "get_elf_type" /\ pc = "done") =>
        /\ (call.e_type = 2 /\ call.dynamic) => ret = "Dynamic"
        /\ (call.e_type = 2 /\ ~call.dynamic) => ret = "Static"
        /\ (call.e_type = 3 /\ call.interpreter) => ret = "Pie"
        /\ (call.e_type = 3 /\ ~call.interpreter) => ret = "Dynamic"
        /\ call.e_type \notin {2, 3} => ret = "Invalid"

\* a DYN header with a dynamic section and an interpreter was classified
C8_Witness ==
    /\ call.fn = "get_elf_type" /\ pc = "done"
    /\ call.e_type = ET_DYN /\ call.dynamic /\ call.interpreter
    /\ ret = "Pie"

\* ---- C6
\* C6 (musl interpreter surfacing): when the root's interpreter path contains "musl",
\* the first pair of the result is (file name of the interpreter, its canonical path
\* if it exists, else the path as declared), and that name is recorded once only.
C6_MuslFirst ==
    (Walking /\ RootElf.interpreter # NoStr /\ contains_musl(RootElf.interpreter)) =>
        LET interp == RootElf.interpreter
            name == Last(Names(interp))
            status == IF exists(interp) THEN Render(Resolve(interp)) ELSE interp
        IN  /\ res # <<>>
            /\ res[1] = <<name, status>>
            /\ Count([k \in 1..Len(res) |-> res[k][1]], name) = 1
            /\ pc = "done" => ret.info.deps # <<>> /\ ret.info.deps[1] = <<name, status>>

\* a musl binary whose interpreter is reached through the /lib link and whose NEEDED
\* list names the interpreter too has been resolved
C6_Witness ==
    /\ Returned /\ RootOk
    /\ RootElf.interpreter = MuslInterp
    /\ exists(MuslInterp) /\ canonicalize(MuslInterp) # MuslInterp
    /\ LdMusl \in Range(RootElf.libraries)
    /\ Len(ret.info.deps) > 1

\* ---- C2
\* The status inner computes for a name declared by the binary at path by.
StatusFor(name, by) ==
    LET f == find_library(name, search_dirs, Frame(by, NoStr).paths)
    IN  IF f = NoStr THEN NOT_FOUND ELSE f
FirstOf(name) == hist.first[CHOOSE k \in 1..Len(hist.first) : hist.first[k].name = name]
Declared == {hist.first[k].name : k \in 1..Len(hist.first)}

\* C2 (first resolution wins): no name occurs in two pairs of the result, whatever
\* its status and however many binaries declare it; the status of a pair is the one
\* computed for the binary that declared the name first; and the result only grows
\* at its end.
C2_FirstResolutionWins ==
    /\ [](call.fn = "rldd_rex" =>
            /\ \A j, k \in 1..Len(res) : res[j][1] = res[k][1] => j = k
            /\ \A k \in 1..Len(res) :
                  res[k][1] \in Declared => res[k][2] = StatusFor(res[k][1], FirstOf(res[k][1]).by)
            /\ pc = "done" /\ RootOk => ret.info.deps = res)
    /\ [][SubSeq(res', 1, Len(res)) = res]_vars

\* a name that two walked binaries declare has been recorded, and so has a name that
\* no directory holds
C2_Witness ==
    /\ Returned
    /\ \E n \in ResNames :
          Cardinality({k \in 1..Len(hist.walks) :
                         n \in Range(elfs[hist.walks[k][2]].libraries)}) >= 2
    /\ \E k \in 1..Len(res) : res[k][2] = NOT_FOUND

\* ---- C10
\* C10 (visited identities): the NEEDED list of a file identity is walked at most
\* once, under whatever names it is reached; an arrival at an identity already
\* visited pushes no activation and leaves the result to the caller, which records
\* the one pair of the name it located.
C10_VisitedOnce ==
    /\ [](\A k \in 1..Len(hist.walks) : Count(hist.walks, hist.walks[k]) = 1)
    /\ [][(Len(hist.arrivals') > Len(hist.arrivals) /\ Last(hist.arrivals') \in visited) =>
             /\ Len(stack') = Len(stack)
             /\ visited' = visited
             /\ hist.walks' = hist.walks
             /\ Len(res') = Len(res) + 1
             /\ Last(res')[1] = Dep]_vars

\* one file has been reached under two names and walked once
C10_Witness ==
    \E j, k \in 1..Len(res) :
        /\ res[j][1] # res[k][1]
        /\ res[j][2] # NOT_FOUND /\ res[k][2] # NOT_FOUND
        /\ metadata(res[j][2]) = metadata(res[k][2])
        /\ Count(hist.arrivals, metadata(res[j][2])) = 2
        /\ Count(hist.walks, metadata(res[j][2])) = 1

\* ---- C3
\* C3 (termination): the walk rldd_rex starts returns, and its depth never exceeds
\* the number of file identities visited, so that a cycle of two files stays far
\* below the ceiling of 512.
C3_Termination ==
    /\ <>(pc = "done")
    /\ [](Len(stack) <= Cardinality(visited) /\ Len(stack) <= MAX_DEPTH)

\* a walk that came back to the root binary through a cycle has returned
C3_Witness ==
    /\ Returned /\ RootOk
    /\ Count(hist.arrivals, metadata(call.path)) >= 2

\* ---- C4
\* The place of a name in the NEEDED list of the binary at path by.
NeededPos(name, by) ==
    LET libs == ElfOf(by).libraries
    IN  CHOOSE k \in 1..Len(libs) : libs[k] = name /\ \A j \in 1..(k - 1) : libs[j] # name
Recorded(e) == e.name \in ResNames
\* e is a name first declared by the binary that was located under the name e.via
ChildOf(e) == e.via # NoStr /\ e.via # e.name
Siblings(d, e) == d.by = e.by /\ d.via = e.via /\ NeededPos(d.name, d.by) < NeededPos(e.name, e.by)
SiblingOrder ==
    \A j, k \in 1..Len(hist.first) :
        (Siblings(hist.first[j], hist.first[k]) /\ Recorded(hist.first[k])) =>
            /\ Recorded(hist.first[j])
            /\ Pos(hist.first[j].name) < Pos(hist.first[k].name)

\* C4 as stated (result order): the pair of a located library P precedes the pair of
\* each dependency C recorded for the first time from P, and sibling names are in
\* NEEDED order.
C4_ParentBeforeChild ==
    call.fn = "rldd_rex" =>
        /\ \A k \in 1..Len(hist.first) :
              LET e == hist.first[k]
              IN  (ChildOf(e) /\ Recorded(e) /\ e.via \in ResNames) => Pos(e.via) < Pos(e.name)
        /\ SiblingOrder

\* C4 as the code has it: the pair of P is pushed when the walk of P has returned, so
\* the pair of each dependency C recorded for the first time from P precedes the pair
\* of P; sibling names are in NEEDED order.
C4_ChildBeforeParent ==
    call.fn = "rldd_rex" =>
        /\ \A k \in 1..Len(hist.first) :
              LET e == hist.first[k]
              IN  (ChildOf(e) /\ e.via \in ResNames) =>
                      Recorded(e) /\ Pos(e.name) < Pos(e.via)
        /\ SiblingOrder

\* a library with a dependency of its own and a root with two recorded names have
\* been resolved
C4_Witness ==
    /\ Returned
    /\ \E k \in 1..Len(hist.first) :
          ChildOf(hist.first[k]) /\ Recorded(hist.first[k]) /\ hist.first[k].via \in ResNames
    /\ \E j, k \in 1..Len(hist.first) :
          Siblings(hist.first[j], hist.first[k]) /\ Recorded(hist.first[k])

\* ---- C1
\* The first of a binary's own resolved RPATH/RUNPATH directories that holds the name.
InOwnPaths(name, by) == FirstHit(Frame(by, NoStr).paths, name)
InGlobal(name) == FirstHit(search_dirs, name)

\* C1 as stated (search order precedence): a name whose file exists both in one of the
\* declaring binary's RPATH/RUNPATH directories and in a global search directory is
\* recorded with the path under the RPATH/RUNPATH directory.
C1_RpathBeforeGlobal ==
    call.fn = "rldd_rex" =>
        \A k \in 1..Len(res) :
            LET name == res[k][1]
            IN  (name \in Declared
                 /\ InOwnPaths(name, FirstOf(name).by) # NoStr
                 /\ InGlobal(name) # NoStr)
                => res[k][2] = InOwnPaths(name, FirstOf(name).by)

\* ---- C9
\* C9 as stated (search-path de-duplication): the list handed to the walk holds no two
\* entries with the same canonical path.
C9_NoDuplicateDirs ==
    Walking =>
        \A j, k \in 1..Len(search_dirs) :
            CanonOrSelf(search_dirs[j]) = CanonOrSelf(search_dirs[k]) => j = k

\* ---- C5
\* What a path denotes: its names with each ".." taken against the name before it.
RECURSIVE Fold(_, _)
Fold(names, acc) ==
    IF names = <<>> THEN acc
    ELSE IF Head(names) = <<PARENT>>
    THEN Fold(Tail(names), IF acc = <<>> THEN acc ELSE Front(acc))
    ELSE Fold(Tail(names), Append(acc, Head(names)))
Denotes(p) == Fold(Names(p), <<>>)

\* C5 as stated ($ORIGIN substitution): an entry that begins with $ORIGIN becomes the
\* declaring binary's directory (the root when it has none) with the remainder of the
\* entry beneath it; any other entry is returned unchanged.
C5_OriginSubstitution ==
    (call.fn = "resolve_origin" /\ pc = "done") =>
        IF call.entry # <<>> /\ call.entry[1] = "$ORIGIN"
        THEN LET dir == IF Names(call.bin_path) = <<>> THEN <<>> ELSE Front(Names(call.bin_path))
             IN  /\ Denotes(ret) = Fold(Names(Tail(call.entry)), Fold(dir, <<>>))
                 /\ is_absolute(ret) = (is_absolute(call.bin_path) \/ Names(call.bin_path) = <<>>)
        ELSE ret = call.entry

====
